---- MODULE Spec2Model ----
(***************************************************************************)
(* Dialysis session tracker: the anomaly evaluator detectAnomalies and the *)
(* handlers that call it.                                                  *)
(*                                                                         *)
(* Representation of JavaScript values                                     *)
(*   - an optional value is a sequence of length 0 (undefined) or 1;       *)
(*   - a weight is an integer number of half kilograms, so that every      *)
(*     modelled weight, difference and 5% boundary is a dyadic rational    *)
(*     that an IEEE double holds exactly and the comparison of the         *)
(*     quotient with 0.05 is the exact one;                                *)
(*   - a Date is its getTime() in milliseconds, counted from midnight of   *)
(*     the scheduled day;                                                  *)
(*   - an anomaly string is the triple <<text, value, value>> of its fixed *)
(*     text and the two numbers embedded in it.                            *)
(***************************************************************************)
EXTENDS Integers, Sequences, FiniteSets, TLC

VARIABLES
    argSession,   \* the session passed to the next call of detectAnomalies
    argPatient,   \* the patient passed to the next call
    ncalls,       \* number of calls of detectAnomalies made so far
    result,       \* the last call: its number, its arguments and what it returned
    memo,         \* the record of some earlier call
    patients,     \* the Patient collection
    sessions,     \* the Session collection, a session's id is its position
    response,     \* the last HTTP response sent
    evaluated,    \* the call of detectAnomalies the last request made, if any
    seedPc,       \* the seed script: 0 before it runs, then the session its
                  \* loop looks at next
    running,      \* the calls of detectAnomalies in progress, by request
    arrays,       \* the array `anomalies` of each call in progress
    pending,      \* the registrations whose handler waits for patient.save()
    patches,      \* the PATCH handlers between two of their awaits
    dashboard     \* the state of the Dashboard component

evalVars == <<argSession, argPatient, ncalls, result, memo>>
apiVars == <<patients, sessions, response, evaluated>>
procVars == <<seedPc, running, arrays, pending, patches, dashboard>>
vars == <<argSession, argPatient, ncalls, result, memo,
          patients, sessions, response, evaluated, seedPc, running, arrays,
          pending, patches, dashboard>>

None == <<>>
Some(v) == <<v>>

(* JavaScript truthiness of an optional number: undefined and 0 are falsy *)
TruthyNum(o) == o # None /\ o[1] # 0

(* JavaScript truthiness of an optional object (Date, sub-document) *)
TruthyObj(o) == o # None

(* a key of a request body whose JSON value is null: the key is present    *)
(* (!== undefined) and its value is falsy; used for vitals.post            *)
Null == <<[null |-> TRUE]>>

(* weights are counted in half kilograms *)
Kg(n) == 2 * n

(* Dates are milliseconds since midnight *)
Minutes(n) == n * 60000
Hours(n) == n * 3600000

(*------------------------- ANOMALY_THRESHOLDS ----------------------------*)
(* 0.05 as the fraction 5/100 *)
MAX_WEIGHT_GAIN_PERCENT == <<5, 100>>
HIGH_SYSTOLIC_BP == 140
MIN_SESSION_DURATION == 150
MAX_SESSION_DURATION == 300

(*------------------------------ helpers ----------------------------------*)
(* a / b > n / m as JavaScript evaluates it, m > 0: exact for b # 0, and   *)
(* a / 0 is Infinity for a > 0, -Infinity for a < 0 and NaN for a = 0      *)
QuotientGreaterOrEqual(a, b, frac) ==
    IF b > 0 THEN a * frac[2] >= frac[1] * b
    ELSE IF b < 0 THEN a * frac[2] <= frac[1] * b
    ELSE a > 0

QuotientGreater(a, b, frac) ==
    IF b > 0 THEN a * frac[2] > frac[1] * b
    ELSE IF b < 0 THEN a * frac[2] < frac[1] * b
    ELSE a > 0

(* round-half-up of a / b to an integer, b > 0 (Math.round, toFixed) *)
RoundHalfUp(a, b) == (2 * a + b) \div (2 * b)

(* the gain formatted with one decimal: the tenths of a kg *)
GainToFixed1(weightGain) == 5 * weightGain

(* Number.prototype.toFixed(2) of the gain in kg: the hundredths of a kg *)
GainToFixed2(weightGain) == 50 * weightGain

(* the number that stands for Infinity in a message *)
Infinity == 2147483647

(* (weightGainPercent * 100).toFixed(1): the tenths of a percent *)
PercentToFixed1(weightGain, dryWeight) ==
    IF dryWeight > 0 THEN RoundHalfUp(1000 * weightGain, dryWeight)
    ELSE IF dryWeight < 0
    THEN RoundHalfUp(1000 * (0 - weightGain), 0 - dryWeight)
    ELSE Infinity

PostSystolicBPNoChain(session) ==
    [threw |-> session.vitals = None \/ session.vitals[1].post = None,
     value |-> IF session.vitals = None THEN None
               ELSE IF session.vitals[1].post = None THEN None
               ELSE session.vitals[1].post[1].systolicBP]

(* session.vitals?.post?.systolicBP: the optional chain yields undefined   *)
(* for an absent vitals or post and never raises a TypeError               *)
PostSystolicBP(session) ==
    [threw |-> FALSE,
     value |-> IF session.vitals = None THEN None
               ELSE IF session.vitals[1].post = None THEN None
               ELSE session.vitals[1].post[1].systolicBP]

(* session.endTime && session.startTime *)
DurationGuard(session) ==
    TruthyObj(session.endTime) /\ TruthyObj(session.startTime)

(*--------------------------- the three checks ----------------------------*)
WeightGainTriggeredNoDryGuard(session, patient) ==
    /\ TruthyNum(session.preWeight)
    /\ patient.dryWeight # None
    /\ QuotientGreater(session.preWeight[1] - patient.dryWeight[1],
                       patient.dryWeight[1], MAX_WEIGHT_GAIN_PERCENT)

WeightGainTriggered(session, patient) ==
    /\ TruthyNum(session.preWeight)
    /\ TruthyNum(patient.dryWeight)
    /\ QuotientGreater(session.preWeight[1] - patient.dryWeight[1],
                       patient.dryWeight[1], MAX_WEIGHT_GAIN_PERCENT)

WeightGainMessage(session, patient) ==
    LET weightGain == session.preWeight[1] - patient.dryWeight[1]
    IN  <<"Excess interdialytic weight gain",
          GainToFixed2(weightGain),
          PercentToFixed1(weightGain, patient.dryWeight[1])>>

CheckWeightGain(anomalies, session, patient) ==
    IF WeightGainTriggered(session, patient)
    THEN Append(anomalies, WeightGainMessage(session, patient))
    ELSE anomalies

CheckSystolicBPInclusive(anomalies, session) ==
    IF TruthyNum(PostSystolicBP(session).value)
    THEN IF session.vitals[1].post[1].systolicBP[1] >= HIGH_SYSTOLIC_BP
         THEN Append(anomalies, <<"High post-dialysis systolic BP",
                                  session.vitals[1].post[1].systolicBP[1],
                                  HIGH_SYSTOLIC_BP>>)
         ELSE anomalies
    ELSE anomalies

(* a check that also looks at the diastolic pressure *)
CheckSystolicBPOrDiastolic(anomalies, session) ==
    IF TruthyNum(PostSystolicBP(session).value)
    THEN IF \/ session.vitals[1].post[1].systolicBP[1] > HIGH_SYSTOLIC_BP
            \/ session.vitals[1].post[1].diastolicBP[1] > 90
         THEN Append(anomalies, <<"High post-dialysis systolic BP",
                                  session.vitals[1].post[1].systolicBP[1],
                                  HIGH_SYSTOLIC_BP>>)
         ELSE anomalies
    ELSE anomalies

CheckSystolicBPElseIf(anomalies, session) ==
    IF Len(anomalies) > 0 THEN anomalies
    ELSE IF TruthyNum(PostSystolicBP(session).value)
    THEN IF session.vitals[1].post[1].systolicBP[1] > HIGH_SYSTOLIC_BP
         THEN Append(anomalies, <<"High post-dialysis systolic BP",
                                  session.vitals[1].post[1].systolicBP[1],
                                  HIGH_SYSTOLIC_BP>>)
         ELSE anomalies
    ELSE anomalies

CheckSystolicBP(anomalies, session) ==
    IF TruthyNum(PostSystolicBP(session).value)
    THEN IF session.vitals[1].post[1].systolicBP[1] > HIGH_SYSTOLIC_BP
         THEN Append(anomalies, <<"High post-dialysis systolic BP",
                                  session.vitals[1].post[1].systolicBP[1],
                                  HIGH_SYSTOLIC_BP>>)
         ELSE anomalies
    ELSE anomalies

CheckDurationInclusive(anomalies, session) ==
    IF DurationGuard(session)
    THEN LET durationMs == session.endTime[1] - session.startTime[1]
         IN  IF durationMs <= Minutes(MIN_SESSION_DURATION)
             THEN Append(anomalies, <<"Short session duration",
                                      RoundHalfUp(durationMs, Minutes(1)),
                                      MIN_SESSION_DURATION>>)
             ELSE IF durationMs > Minutes(MAX_SESSION_DURATION)
             THEN Append(anomalies, <<"Long session duration",
                                      RoundHalfUp(durationMs, Minutes(1)),
                                      MAX_SESSION_DURATION>>)
             ELSE anomalies
    ELSE anomalies

(* a check that leaves out sessions that end at or before their start *)
CheckDurationSkipsNonPositive(anomalies, session) ==
    IF DurationGuard(session)
    THEN LET durationMs == session.endTime[1] - session.startTime[1]
         IN  IF durationMs <= 0
             THEN anomalies
             ELSE IF durationMs < Minutes(MIN_SESSION_DURATION)
             THEN Append(anomalies, <<"Short session duration",
                                      RoundHalfUp(durationMs, Minutes(1)),
                                      MIN_SESSION_DURATION>>)
             ELSE IF durationMs > Minutes(MAX_SESSION_DURATION)
             THEN Append(anomalies, <<"Long session duration",
                                      RoundHalfUp(durationMs, Minutes(1)),
                                      MAX_SESSION_DURATION>>)
             ELSE anomalies
    ELSE anomalies

(* a check that compares the rounded minutes *)
CheckDurationRoundsFirst(anomalies, session) ==
    IF DurationGuard(session)
    THEN LET durationMs == session.endTime[1] - session.startTime[1]
             rounded == RoundHalfUp(durationMs, Minutes(1))
         IN  IF rounded < MIN_SESSION_DURATION
             THEN Append(anomalies, <<"Short session duration", rounded,
                                      MIN_SESSION_DURATION>>)
             ELSE IF rounded > MAX_SESSION_DURATION
             THEN Append(anomalies, <<"Long session duration", rounded,
                                      MAX_SESSION_DURATION>>)
             ELSE anomalies
    ELSE anomalies

(* durationMinutes is kept as the millisecond difference; it is compared   *)
(* unrounded and rounded only for the message                              *)
CheckDuration(anomalies, session) ==
    IF DurationGuard(session)
    THEN LET durationMs == session.endTime[1] - session.startTime[1]
         IN  IF durationMs < Minutes(MIN_SESSION_DURATION)
             THEN Append(anomalies, <<"Short session duration",
                                      RoundHalfUp(durationMs, Minutes(1)),
                                      MIN_SESSION_DURATION>>)
             ELSE IF durationMs > Minutes(MAX_SESSION_DURATION)
             THEN Append(anomalies, <<"Long session duration",
                                      RoundHalfUp(durationMs, Minutes(1)),
                                      MAX_SESSION_DURATION>>)
             ELSE anomalies
    ELSE anomalies

(* A TypeError is raised where a property of undefined is read: by the    *)
(* guard of the BP check, by session.vitals.post.systolicBP inside the BP  *)
(* branch, and by endTime.getTime() and startTime.getTime() inside the     *)
(* duration branch                                                         *)
DetectThrows(session) ==
    \/ PostSystolicBP(session).threw
    \/ /\ TruthyNum(PostSystolicBP(session).value)
       /\ \/ session.vitals = None
          \/ session.vitals[1].post = None
    \/ /\ DurationGuard(session)
       /\ \/ session.endTime = None
          \/ session.startTime = None

DetectFromBPFirst(anomalies, session, patient) ==
    IF DetectThrows(session)
    THEN [threw |-> TRUE, hasAnomalies |-> FALSE, anomalies |-> <<>>]
    ELSE LET a1 == CheckSystolicBP(anomalies, session)
             a2 == CheckWeightGain(a1, session, patient)
             a3 == CheckDuration(a2, session)
         IN  [threw |-> FALSE, hasAnomalies |-> Len(a3) > 0, anomalies |-> a3]

DetectFromFlagOffByOne(anomalies, session, patient) ==
    IF DetectThrows(session)
    THEN [threw |-> TRUE, hasAnomalies |-> FALSE, anomalies |-> <<>>]
    ELSE LET a1 == CheckWeightGain(anomalies, session, patient)
             a2 == CheckSystolicBP(a1, session)
             a3 == CheckDuration(a2, session)
         IN  [threw |-> FALSE, hasAnomalies |-> Len(a3) > 1, anomalies |-> a3]

(* the checks applied in the order of the code to the array `anomalies` *)
DetectFrom(anomalies, session, patient) ==
    IF DetectThrows(session)
    THEN [threw |-> TRUE, hasAnomalies |-> FALSE, anomalies |-> <<>>]
    ELSE LET a1 == CheckWeightGain(anomalies, session, patient)
             a2 == CheckSystolicBP(a1, session)
             a3 == CheckDuration(a2, session)
         IN  [threw |-> FALSE, hasAnomalies |-> Len(a3) > 0, anomalies |-> a3]

(* an array that outlives the call and still holds the last call's strings *)
detectAnomaliesSharedArray(session, patient) ==
    DetectFrom(IF result = None THEN <<>> ELSE result[1].out.anomalies,
               session, patient)

(* const anomalies: string[] = [] is a fresh array in every call *)
detectAnomalies(session, patient) == DetectFrom(<<>>, session, patient)

(*------------------------------ bounds -----------------------------------*)
(* half-kg steps of preWeight modelled above the 5% boundary *)
WeightSpread == 3
(* mmHg modelled on either side of HIGH_SYSTOLIC_BP *)
BPSpread == 1
(* milliseconds modelled on either side of the two duration limits *)
TimeSpread == 1
(* calls of detectAnomalies made in one behaviour *)
MaxCalls == 3

(*--------------------------- evaluator inputs ----------------------------*)
OptionOf(S) == {None} \cup {Some(v) : v \in S}

(* the dry weight of the tests' mockPatient, zero, and a negative weight *)
DryWeightValues == {0, Kg(70), 0 - Kg(70)}

(* 73.5 kg is exactly 5% above 70 kg *)
PreWeightValues ==
    {0, 0 - Kg(75), Kg(72)} \cup (Kg(70) .. (Kg(70) + 7 + WeightSpread))

SystolicValues ==
    {0, 130, 145}
        \cup ((HIGH_SYSTOLIC_BP - BPSpread) .. (HIGH_SYSTOLIC_BP + BPSpread))

IVitals(sys) == [systolicBP |-> sys, diastolicBP |-> Some(80)]

VitalsValues ==
    {None, Some([pre |-> None, post |-> None])}
        \cup {Some([pre |-> None, post |-> Some(IVitals(sys))]) :
                 sys \in OptionOf(SystolicValues)}

(* elapsed milliseconds between startTime and endTime *)
DurationValues ==
    {0 - Minutes(30), 0, Minutes(120), Minutes(240), Minutes(360),
     Minutes(MIN_SESSION_DURATION) - 30000,
     Minutes(MIN_SESSION_DURATION) - 30001,
     Minutes(MAX_SESSION_DURATION) + 29999,
     Minutes(MAX_SESSION_DURATION) + 30000}
        \cup {Minutes(MIN_SESSION_DURATION) + k : k \in (0 - TimeSpread) .. TimeSpread}
        \cup {Minutes(MAX_SESSION_DURATION) + k : k \in (0 - TimeSpread) .. TimeSpread}

MkSession(startTime, endTime, preWeight, postWeight, vitals) ==
    [patientId |-> "P001", scheduledDate |-> 0,
     startTime |-> startTime, endTime |-> endTime,
     preWeight |-> preWeight, postWeight |-> postWeight,
     vitals |-> vitals, machineId |-> "M001", nurseNotes |-> None,
     status |-> "in_progress", anomalies |-> <<>>]

EvalSessions ==
    {MkSession(st, en, pre, post, v) :
        st \in {None, Some(Hours(8))},
        en \in {None} \cup {Some(Hours(8) + d) : d \in DurationValues},
        pre \in OptionOf(PreWeightValues),
        post \in {None, Some(Kg(70))},
        v \in VitalsValues}

EvalPatients == {[dryWeight |-> d] : d \in OptionOf(DryWeightValues)}

(* the sessions of the unit tests and their neighbours *)
TestSessions ==
    {MkSession(Some(Hours(8)), en, Some(pre), None, v) :
        en \in {None, Some(Hours(10)), Some(Hours(14))},
        pre \in {Kg(72), Kg(75)},
        v \in {None,
               Some([pre |-> None, post |-> Some(IVitals(Some(130)))]),
               Some([pre |-> None, post |-> Some(IVitals(Some(145)))])}}

TestPatients == {[dryWeight |-> Some(d)] : d \in {0, Kg(70)}}

(* the vitals with pre-dialysis readings, with another diastolic pressure  *)
(* and with a heart rate                                                   *)
WithPre(vitals) ==
    IF vitals = None
    THEN Some([pre |-> Some([systolicBP |-> Some(135),
                             diastolicBP |-> Some(85)]),
               post |-> None])
    ELSE Some([vitals[1] EXCEPT !.pre = Some([systolicBP |-> Some(135),
                                              diastolicBP |-> Some(85)])])

WithDiastolic(vitals) ==
    IF vitals = None \/ vitals[1].post = None THEN vitals
    ELSE Some([vitals[1] EXCEPT
                  !.post = Some([@[1] EXCEPT !.diastolicBP = Some(95)])])

WithHeartRate(vitals) ==
    IF vitals = None \/ vitals[1].post = None THEN vitals
    ELSE Some([vitals[1] EXCEPT
                  !.post = Some([systolicBP |-> @[1].systolicBP,
                                 diastolicBP |-> @[1].diastolicBP,
                                 heartRate |-> Some(70)])])

(* a session, the sessions that differ from it in one of the fields no     *)
(* check reads, and the one that differs in all of them                    *)
OtherFieldVariants(s) ==
    {s,
     [s EXCEPT !.postWeight = Some(Kg(70))],
     [s EXCEPT !.status = "completed"],
     [s EXCEPT !.machineId = "M002"],
     [s EXCEPT !.nurseNotes = Some("note")],
     [s EXCEPT !.vitals = WithPre(@)],
     [s EXCEPT !.vitals = WithDiastolic(@)],
     [s EXCEPT !.vitals = WithHeartRate(@)],
     [s EXCEPT !.postWeight = Some(Kg(70)), !.status = "completed",
               !.machineId = "M002", !.nurseNotes = Some("note"),
               !.vitals = WithHeartRate(WithDiastolic(WithPre(@)))]}

(* a running session, a short one with a high BP and a heavy patient, and  *)
(* a long one with a normal BP                                             *)
FieldSessions ==
    UNION {OtherFieldVariants(s) :
              s \in {MkSession(Some(Hours(8)), None, Some(Kg(72)), None, None),
                     MkSession(Some(Hours(8)), Some(Hours(10)), Some(Kg(75)),
                               None,
                               Some([pre |-> None,
                                     post |-> Some(IVitals(Some(145)))])),
                     MkSession(Some(Hours(8)), Some(Hours(14)), Some(Kg(72)),
                               None,
                               Some([pre |-> None,
                                     post |-> Some(IVitals(Some(130)))]))}}

(*------------------------------ actions ----------------------------------*)
(*------------------------------ actions ----------------------------------*)
(* a call that also stores its list in the session it was given *)
EvaluateWritesSession ==
    LET call == [n |-> ncalls + 1,
                 session |-> argSession, patient |-> argPatient,
                 out |-> detectAnomalies(argSession, argPatient)]
    IN  /\ ncalls < MaxCalls
        /\ ncalls' = ncalls + 1
        /\ result' = Some(call)
        /\ memo' \in {memo, Some(call)}
        /\ argSession' = [argSession EXCEPT !.anomalies = call.out.anomalies]
        /\ UNCHANGED <<argPatient, apiVars, procVars>>

(* one call of detectAnomalies on the current arguments, as a test or a    *)
(* handler makes it; memo may keep the record of any earlier call          *)
Evaluate ==
    LET call == [n |-> ncalls + 1,
                 session |-> argSession, patient |-> argPatient,
                 out |-> detectAnomalies(argSession, argPatient)]
    IN  /\ ncalls < MaxCalls
        /\ ncalls' = ncalls + 1
        /\ result' = Some(call)
        /\ memo' \in {memo, Some(call)}
        /\ UNCHANGED <<argSession, argPatient, apiVars, procVars>>

(* the caller builds the arguments of its next call *)
SetInput ==
    /\ \E s \in TestSessions, p \in TestPatients :
          /\ <<s, p>> # <<argSession, argPatient>>
          /\ argSession' = s
          /\ argPatient' = p
    /\ UNCHANGED <<ncalls, result, memo, apiVars, procVars>>

(*------------------------- calls in progress -----------------------------*)
(* requests whose handlers have called detectAnomalies at the same time *)
MaxRunning == 2

(* four calls on different sessions: no anomaly, the weight anomaly, all   *)
(* three anomalies, and a long session                                     *)
ConcurrentCalls ==
    {[session |-> MkSession(Some(Hours(8)), en, Some(pre), None, v),
      patient |-> [dryWeight |-> Some(Kg(70))]] :
        <<en, pre, v>> \in
            {<<None, Kg(72), None>>,
             <<None, Kg(75), None>>,
             <<Some(Hours(10)), Kg(75),
               Some([pre |-> None, post |-> Some(IVitals(Some(145)))])>>,
             <<Some(Hours(14)), Kg(72),
               Some([pre |-> None, post |-> Some(IVitals(Some(130)))])>>}}

(* one array for all the calls *)
ArrayOfShared(i) == 1

(* const anomalies: string[] = [] belongs to the call that declares it *)
ArrayOf(i) == i

(* the call of request i enters the function and declares its array *)
StartCall(i, session, patient) ==
    /\ running[i] = None
    /\ \A j \in 1 .. MaxRunning :
          running[j] # None => running[j][1].session # session
    /\ running' = [running EXCEPT ![i] =
                      Some([session |-> session, patient |-> patient,
                            pc |-> "weight", hasAnomalies |-> FALSE])]
    /\ arrays' = [arrays EXCEPT ![ArrayOf(i)] = <<>>]
    /\ UNCHANGED <<seedPc, pending, patches, dashboard, apiVars, evalVars>>

(* the next statement of the call of request i: the three checks, then the *)
(* return statement, which reads anomalies.length.  The runtime runs these *)
(* statements of one call without interruption; the interleavings of the   *)
(* model include that schedule                                             *)
StepCall(i) ==
    /\ running[i] # None
    /\ running[i][1].pc # "done"
    /\ LET call == running[i][1]
           array == arrays[ArrayOf(i)]
       IN  /\ arrays' = [arrays EXCEPT ![ArrayOf(i)] =
                  CASE call.pc = "weight" ->
                          CheckWeightGain(array, call.session, call.patient)
                    [] call.pc = "bp" -> CheckSystolicBP(array, call.session)
                    [] call.pc = "duration" -> CheckDuration(array, call.session)
                    [] OTHER -> array]
           /\ running' = [running EXCEPT ![i] = Some([call EXCEPT
                  !.pc = CASE call.pc = "weight" -> "bp"
                           [] call.pc = "bp" -> "duration"
                           [] call.pc = "duration" -> "return"
                           [] OTHER -> "done",
                  !.hasAnomalies = IF call.pc = "return" THEN Len(array) > 0
                                   ELSE @])]
    /\ UNCHANGED <<seedPc, pending, patches, dashboard, apiVars, evalVars>>

(* what the caller of a finished call holds: the flag and the array *)
Returned(i) ==
    [threw |-> DetectThrows(running[i][1].session),
     hasAnomalies |-> running[i][1].hasAnomalies,
     anomalies |-> arrays[ArrayOf(i)]]

(* the handler of request i has used the result and has answered *)
FinishCall(i) ==
    /\ running[i] # None
    /\ running[i][1].pc = "done"
    /\ running' = [running EXCEPT ![i] = None]
    /\ UNCHANGED <<arrays, seedPc, pending, patches, dashboard, apiVars, evalVars>>

(* the caller passes a session with other values in the fields the checks  *)
(* do not read, or another session                                         *)
SetOtherFields ==
    /\ \E s \in FieldSessions :
          /\ s # argSession
          /\ argSession' = s
    /\ UNCHANGED <<argPatient, ncalls, result, memo, apiVars, procVars>>

(*------------------------------ the API ----------------------------------*)
(* sessions kept in the collection *)
MaxSessions == 2

(* midnight of the current day, new Date() with setHours(0, 0, 0, 0) *)
Today == 0
Tomorrow == Today + Hours(24)

Reply(op, status, error, list) ==
    [op |-> op, status |-> status, error |-> error,
     count |-> Len(list), sessions |-> list]

NoResponse == Reply("none", 0, "", <<>>)

(* a query that ignores its filter when no patient matches *)
FindPatientOrAny(patientId) ==
    IF \E p \in patients : p.patientId = patientId
    THEN Some(CHOOSE p \in patients : p.patientId = patientId)
    ELSE IF patients # {} THEN Some(CHOOSE p \in patients : TRUE)
    ELSE None

(* a collection without the unique index: no document is ever found *)
FindPatientMisses(patientId) == None

(* Patient.findOne({ patientId }) *)
FindPatient(patientId) ==
    IF \E p \in patients : p.patientId = patientId
    THEN Some(CHOOSE p \in patients : p.patientId = patientId)
    ELSE None

(* the validators of SessionSchema and VitalsSchema that run in save() *)
ValidVitals(v) ==
    v = None \/ (/\ v[1].systolicBP # None /\ v[1].systolicBP[1] >= 0
                 /\ v[1].diastolicBP # None /\ v[1].diastolicBP[1] >= 0)

ValidSession(doc) ==
    /\ doc.preWeight # None /\ doc.preWeight[1] >= 0
    /\ doc.postWeight = None \/ doc.postWeight[1] >= 0
    /\ doc.startTime # None
    /\ ValidVitals(doc.vitals[1].pre)
    /\ ValidVitals(doc.vitals[1].post)
    /\ doc.status \in {"not_started", "in_progress", "completed"}

(* the session object of a response body *)
SessionBody(id, doc, patient, hasAnomalies) ==
    [id |-> id, session |-> doc, patient |-> patient,
     hasAnomalies |-> hasAnomalies]

(* a handler that calls the evaluator without the patient's dryWeight *)
CallRecordWithoutDryWeight(session, patient) ==
    [session |-> session, patient |-> [dryWeight |-> None],
     out |-> detectAnomalies(session, [dryWeight |-> None])]

(* the record of the call a handler makes *)
CallRecord(session, patient) ==
    [session |-> session, patient |-> patient,
     out |-> detectAnomalies(session, patient)]

(* POST /api/patients *)
RegisterPatient(body) ==
    /\ IF \/ ~TruthyObj(body.patientId) \/ ~TruthyObj(body.firstName)
          \/ ~TruthyNum(body.dryWeight) \/ ~TruthyObj(body.unit)
       THEN /\ response' = Reply("POST /api/patients", 400,
                                 "Missing required fields", <<>>)
            /\ UNCHANGED patients
       ELSE IF body.dryWeight[1] <= 0
       THEN /\ response' = Reply("POST /api/patients", 400,
                                 "Dry weight must be greater than 0", <<>>)
            /\ UNCHANGED patients
       ELSE IF FindPatient(body.patientId[1]) # None
       THEN /\ response' = Reply("POST /api/patients", 409,
                                 "Patient ID already exists", <<>>)
            /\ UNCHANGED patients
       ELSE /\ patients' = patients \cup
                   {[patientId |-> body.patientId[1],
                     firstName |-> body.firstName[1],
                     dryWeight |-> body.dryWeight[1],
                     unit |-> body.unit[1]]}
            /\ response' = Reply("POST /api/patients", 201, "", <<>>)
    /\ evaluated' = None
    /\ UNCHANGED <<sessions, evalVars, procVars>>

(* registrations waiting for their save at the same time *)
MaxPending == 2

(* the body passes the two checks the handler makes before it saves *)
PassesChecks(body) ==
    /\ TruthyObj(body.patientId) /\ TruthyObj(body.firstName)
    /\ TruthyNum(body.dryWeight) /\ TruthyObj(body.unit)
    /\ ~(body.dryWeight[1] <= 0)

(* POST /api/patients up to await patient.save(): the handler of a body    *)
(* that passes the checks is suspended while the database works            *)
BeginRegistration(body) ==
    /\ PassesChecks(body)
    /\ Cardinality(pending) < MaxPending
    /\ pending' = pending \cup {body}
    /\ UNCHANGED <<seedPc, running, arrays, patches, dashboard, apiVars, evalVars>>

(* the save of a waiting registration and the answer of its handler: the   *)
(* unique index on patientId refuses a second document with the same id    *)
(* (error code 11000)                                                      *)
CompleteRegistration(body) ==
    /\ body \in pending
    /\ pending' = pending \ {body}
    /\ IF FindPatient(body.patientId[1]) # None
       THEN /\ response' = Reply("POST /api/patients", 409,
                                 "Patient ID already exists", <<>>)
            /\ UNCHANGED patients
       ELSE /\ patients' = patients \cup
                   {[patientId |-> body.patientId[1],
                     firstName |-> body.firstName[1],
                     dryWeight |-> body.dryWeight[1],
                     unit |-> body.unit[1]]}
            /\ response' = Reply("POST /api/patients", 201, "", <<>>)
    /\ evaluated' = None
    /\ UNCHANGED <<sessions, seedPc, running, arrays, patches, dashboard, evalVars>>

(* the document new Session(sessionData) builds from the request body *)
NewSession(body) ==
    [patientId |-> body.patientId[1],
     scheduledDate |-> body.scheduledDate[1],
     startTime |-> body.startTime,
     endTime |-> body.endTime,
     preWeight |-> body.preWeight,
     postWeight |-> body.postWeight,
     vitals |-> IF body.vitals # None THEN body.vitals
                ELSE Some([pre |-> None, post |-> None]),
     machineId |-> body.machineId[1],
     nurseNotes |-> body.nurseNotes,
     status |-> IF body.status # None THEN body.status[1] ELSE "in_progress",
     anomalies |-> <<>>]

(* POST /api/sessions *)
CreateSession(body) ==
    IF \/ ~TruthyObj(body.patientId) \/ ~TruthyObj(body.scheduledDate)
       \/ ~TruthyObj(body.startTime) \/ ~TruthyNum(body.preWeight)
       \/ ~TruthyObj(body.machineId)
    THEN /\ response' = Reply("POST /api/sessions", 400,
                              "Missing required fields", <<>>)
         /\ evaluated' = None
         /\ UNCHANGED <<patients, sessions, evalVars, procVars>>
    ELSE IF FindPatient(body.patientId[1]) = None
    THEN /\ response' = Reply("POST /api/sessions", 404,
                              "Patient not found", <<>>)
         /\ evaluated' = None
         /\ UNCHANGED <<patients, sessions, evalVars, procVars>>
    ELSE LET patient == FindPatient(body.patientId[1])[1]
             session == NewSession(body)
             call == CallRecord(session, [dryWeight |-> Some(patient.dryWeight)])
             saved == [session EXCEPT !.anomalies = call.out.anomalies]
         IN  /\ Len(sessions) < MaxSessions
             /\ evaluated' = Some(call)
             /\ IF call.out.threw
                THEN /\ response' = Reply("POST /api/sessions", 500,
                                          "Failed to record session", <<>>)
                     /\ UNCHANGED sessions
                ELSE IF ~ValidSession(saved)
                THEN /\ response' = Reply("POST /api/sessions", 400,
                                          "Validation failed", <<>>)
                     /\ UNCHANGED sessions
                ELSE /\ sessions' = Append(sessions, saved)
                     /\ response' =
                           Reply("POST /api/sessions", 201, "",
                                 <<SessionBody(Len(sessions) + 1, saved, None,
                                               call.out.hasAnomalies)>>)
             /\ UNCHANGED <<patients, evalVars, procVars>>

(* { ...session.vitals, ...updates.vitals }; a post of null overrides the  *)
(* stored one and reads back as no post-dialysis vitals                    *)
(* an assignment of the given object in place of the stored one *)
MergeVitalsReplaces(stored, given) ==
    Some([pre |-> given[1].pre,
          post |-> IF given[1].post = Null THEN None ELSE given[1].post])

MergeVitals(stored, given) ==
    Some([pre |-> IF given[1].pre # None THEN given[1].pre ELSE stored[1].pre,
          post |-> IF given[1].post = Null THEN None
                   ELSE IF given[1].post # None THEN given[1].post
                   ELSE stored[1].post])

(* a handler that assigns every field of the payload to the document *)
ApplyUpdatesAssignsAll(session, updates) ==
    LET has(field) == field \in DOMAIN updates /\ updates[field] # None
    IN  [session EXCEPT
            !.nurseNotes = IF updates.nurseNotes # None THEN updates.nurseNotes
                           ELSE @,
            !.endTime = IF updates.endTime # None THEN updates.endTime ELSE @,
            !.postWeight = IF updates.postWeight # None
                           THEN updates.postWeight ELSE @,
            !.vitals = IF updates.vitals # None
                       THEN MergeVitals(@, updates.vitals) ELSE @,
            !.status = IF updates.status # None THEN updates.status[1] ELSE @,
            !.patientId = IF has("patientId") THEN updates.patientId[1] ELSE @,
            !.scheduledDate = IF has("scheduledDate")
                              THEN updates.scheduledDate[1] ELSE @,
            !.startTime = IF has("startTime") THEN updates.startTime ELSE @,
            !.preWeight = IF has("preWeight") THEN updates.preWeight ELSE @,
            !.machineId = IF has("machineId") THEN updates.machineId[1] ELSE @]

(* the assignments of the update handler to the document it found *)
ApplyUpdates(session, updates) ==
    [session EXCEPT
        !.nurseNotes = IF updates.nurseNotes # None THEN updates.nurseNotes
                       ELSE @,
        !.endTime = IF updates.endTime # None THEN updates.endTime ELSE @,
        !.postWeight = IF updates.postWeight # None THEN updates.postWeight
                       ELSE @,
        !.vitals = IF updates.vitals # None THEN MergeVitals(@, updates.vitals)
                   ELSE @,
        !.status = IF updates.status # None THEN updates.status[1] ELSE @]

(* a handler that re-evaluates on every update *)
UpdateAlwaysEvaluates(updates) == TRUE

(* updates.postWeight !== undefined || updates.vitals?.post || updates.endTime *)
UpdateTriggersEvaluation(updates) ==
    \/ updates.postWeight # None
    \/ (/\ updates.vitals # None
        /\ TruthyObj(updates.vitals[1].post)
        /\ updates.vitals[1].post # Null)
    \/ TruthyObj(updates.endTime)

(* PATCH /api/sessions/:id *)
UpdateSession(id, updates) ==
    IF id > Len(sessions)
    THEN /\ response' = Reply("PATCH /api/sessions/:id", 404,
                              "Session not found", <<>>)
         /\ evaluated' = None
         /\ UNCHANGED <<patients, sessions, evalVars, procVars>>
    ELSE LET session == ApplyUpdates(sessions[id], updates)
             found == FindPatient(session.patientId)
             evaluates == UpdateTriggersEvaluation(updates) /\ found # None
             call == CallRecord(session,
                                [dryWeight |-> Some(found[1].dryWeight)])
             saved == IF evaluates
                      THEN [session EXCEPT !.anomalies = call.out.anomalies]
                      ELSE session
         IN  /\ evaluated' = IF evaluates THEN Some(call) ELSE None
             /\ IF evaluates /\ call.out.threw
                THEN /\ response' = Reply("PATCH /api/sessions/:id", 500,
                                          "Failed to update session", <<>>)
                     /\ UNCHANGED sessions
                ELSE IF ~ValidSession(saved)
                THEN /\ response' = Reply("PATCH /api/sessions/:id", 400,
                                          "Validation failed", <<>>)
                     /\ UNCHANGED sessions
                ELSE /\ sessions' = [sessions EXCEPT ![id] = saved]
                     /\ response' =
                           Reply("PATCH /api/sessions/:id", 200, "",
                                 <<SessionBody(id, saved, None,
                                               Len(saved.anomalies) > 0)>>)
             /\ UNCHANGED <<patients, evalVars, procVars>>

(* ids of the sessions matching the query, sorted by scheduledDate and     *)
(* startTime (insertion sort, ties in collection order)                    *)
Before(a, b) ==
    \/ sessions[a].scheduledDate < sessions[b].scheduledDate
    \/ /\ sessions[a].scheduledDate = sessions[b].scheduledDate
       /\ sessions[a].startTime[1] < sessions[b].startTime[1]

RECURSIVE SortedIds(_)
SortedIds(n) ==
    IF n = 0 THEN <<>>
    ELSE LET rest == SortedIds(n - 1)
             keep == ~(sessions[n].scheduledDate >= Today
                          /\ sessions[n].scheduledDate < Tomorrow)
             pos == Cardinality({i \in 1 .. Len(rest) : ~Before(n, rest[i])})
         IN  IF keep THEN rest
             ELSE SubSeq(rest, 1, pos) \o <<n>> \o SubSeq(rest, pos + 1, Len(rest))

(* a schedule that does not look at the unit *)
TodayEntryIgnoresUnit(id, unit, anomaliesOnly) ==
    LET session == sessions[id]
        found == FindPatient(session.patientId)
    IN  IF found = None THEN None
        ELSE IF anomaliesOnly = Some("true") /\ Len(session.anomalies) = 0
        THEN None
        ELSE Some(SessionBody(id, session, found,
                              Len(session.anomalies) > 0))

(* the body built for one session of the schedule, None when filtered out *)
TodayEntry(id, unit, anomaliesOnly) ==
    LET session == sessions[id]
        found == FindPatient(session.patientId)
    IN  IF found = None THEN None
        ELSE IF unit # None /\ found[1].unit # unit[1] THEN None
        ELSE IF anomaliesOnly = Some("true") /\ Len(session.anomalies) = 0
        THEN None
        ELSE Some(SessionBody(id, session, found,
                              Len(session.anomalies) > 0))

RECURSIVE TodayList(_, _, _)
TodayList(ids, unit, anomaliesOnly) ==
    IF ids = <<>> THEN <<>>
    ELSE TodayEntry(Head(ids), unit, anomaliesOnly)
            \o TodayList(Tail(ids), unit, anomaliesOnly)

(* GET /api/sessions/today *)
GetToday(unit, anomaliesOnly) ==
    /\ response' = Reply("GET /api/sessions/today", 200, "",
                         TodayList(SortedIds(Len(sessions)), unit,
                                   anomaliesOnly))
    /\ evaluated' = None
    /\ UNCHANGED <<patients, sessions, evalVars, procVars>>

(*---------------------- PATCH requests in steps --------------------------*)
(* PATCH requests whose handlers run at the same time *)
MaxPatches == 2

(* session.save() of a document loaded as `loaded` and now `doc`: the      *)
(* update it sends sets the paths whose value was changed by an assignment *)
(* and leaves the other paths of the stored document alone                 *)
SaveModified(stored, loaded, doc) ==
    [stored EXCEPT
        !.nurseNotes = IF doc.nurseNotes # loaded.nurseNotes
                       THEN doc.nurseNotes ELSE @,
        !.endTime = IF doc.endTime # loaded.endTime THEN doc.endTime ELSE @,
        !.postWeight = IF doc.postWeight # loaded.postWeight
                       THEN doc.postWeight ELSE @,
        !.vitals = IF doc.vitals # loaded.vitals THEN doc.vitals ELSE @,
        !.status = IF doc.status # loaded.status THEN doc.status ELSE @,
        !.anomalies = IF doc.anomalies # loaded.anomalies
                      THEN doc.anomalies ELSE @]

(* await Session.findById(id): handler r gets its own copy of the stored   *)
(* document, or answers 404                                                *)
PatchFind(r, id, updates) ==
    /\ patches[r] = None
    /\ IF id > Len(sessions)
       THEN /\ response' = Reply("PATCH /api/sessions/:id", 404,
                                 "Session not found", <<>>)
            /\ evaluated' = None
            /\ UNCHANGED patches
       ELSE /\ patches' = [patches EXCEPT ![r] =
                   Some([id |-> id, updates |-> updates,
                         loaded |-> sessions[id], doc |-> sessions[id],
                         pc |-> "apply"])]
            /\ UNCHANGED <<response, evaluated>>
    /\ UNCHANGED <<patients, sessions, evalVars, seedPc, running, arrays,
                   pending, dashboard>>

(* the assignments of the payload to the copy, up to the next await *)
PatchApply(r) ==
    /\ patches[r] # None
    /\ patches[r][1].pc = "apply"
    /\ LET patch == patches[r][1]
       IN  patches' = [patches EXCEPT ![r] = Some([patch EXCEPT
               !.doc = ApplyUpdates(patch.doc, patch.updates),
               !.pc = IF UpdateTriggersEvaluation(patch.updates)
                      THEN "evaluate" ELSE "save"])]
    /\ UNCHANGED <<apiVars, evalVars, seedPc, running, arrays, pending,
                   dashboard>>

(* await Patient.findOne, then the evaluator on the copy *)
PatchEvaluate(r) ==
    /\ patches[r] # None
    /\ patches[r][1].pc = "evaluate"
    /\ LET patch == patches[r][1]
           found == FindPatient(patch.doc.patientId)
           call == CallRecord(patch.doc,
                              [dryWeight |-> Some(found[1].dryWeight)])
       IN  IF found = None
           THEN /\ patches' = [patches EXCEPT ![r] =
                       Some([patch EXCEPT !.pc = "save"])]
                /\ UNCHANGED <<response, evaluated>>
           ELSE IF call.out.threw
           THEN /\ patches' = [patches EXCEPT ![r] = None]
                /\ response' = Reply("PATCH /api/sessions/:id", 500,
                                     "Failed to update session", <<>>)
                /\ evaluated' = Some(call)
           ELSE /\ patches' = [patches EXCEPT ![r] = Some([patch EXCEPT
                       !.doc.anomalies = call.out.anomalies,
                       !.pc = "save"])]
                /\ evaluated' = Some(call)
                /\ UNCHANGED response
    /\ UNCHANGED <<patients, sessions, evalVars, seedPc, running, arrays,
                   pending, dashboard>>

(* await session.save() and the answer *)
PatchSave(r) ==
    /\ patches[r] # None
    /\ patches[r][1].pc = "save"
    /\ LET patch == patches[r][1]
       IN  IF ~ValidSession(patch.doc)
           THEN /\ response' = Reply("PATCH /api/sessions/:id", 400,
                                     "Validation failed", <<>>)
                /\ UNCHANGED sessions
           ELSE /\ sessions' = [sessions EXCEPT ![patch.id] =
                       SaveModified(@, patch.loaded, patch.doc)]
                /\ response' =
                      Reply("PATCH /api/sessions/:id", 200, "",
                            <<SessionBody(patch.id, patch.doc, None,
                                          Len(patch.doc.anomalies) > 0)>>)
    /\ patches' = [patches EXCEPT ![r] = None]
    /\ UNCHANGED <<patients, evaluated, evalVars, seedPc, running, arrays,
                   pending, dashboard>>

(*---------------------------- the seed script ----------------------------*)
SeedVitals(sys, dia) == Some([systolicBP |-> Some(sys), diastolicBP |-> Some(dia)])

SeedPatients ==
    {[patientId |-> "P001", firstName |-> "John", dryWeight |-> Kg(70),
      unit |-> "Unit-A"],
     [patientId |-> "P002", firstName |-> "Jane", dryWeight |-> Kg(65) + 1,
      unit |-> "Unit-A"],
     [patientId |-> "P003", firstName |-> "Robert", dryWeight |-> Kg(80),
      unit |-> "Unit-B"],
     [patientId |-> "P004", firstName |-> "Maria", dryWeight |-> Kg(58),
      unit |-> "Unit-B"]}

SeedSession(patientId, startTime, endTime, preWeight, postWeight, vitals, machineId, nurseNotes, status, anomalies) ==
    [patientId |-> patientId, scheduledDate |-> Today,
     startTime |-> Some(startTime), endTime |-> endTime,
     preWeight |-> Some(preWeight), postWeight |-> postWeight,
     vitals |-> Some(vitals), machineId |-> machineId,
     nurseNotes |-> nurseNotes, status |-> status, anomalies |-> anomalies]

(* the six sessions with the anomaly lists written in the script; the end  *)
(* of the fourth is today + 13 * 30 * 60 * 1000 ms, half past six          *)
SeedSessions ==
    <<SeedSession("P001", Hours(8), Some(Hours(12)), Kg(72), Some(Kg(70) + 1),
                  [pre |-> SeedVitals(135, 85), post |-> SeedVitals(130, 80)],
                  "M001", Some("Session completed normally"), "completed",
                  <<>>),
      SeedSession("P002", Hours(9), Some(Hours(13)), Kg(70), Some(Kg(66)),
                  [pre |-> SeedVitals(140, 90), post |-> SeedVitals(135, 85)],
                  "M002", Some("Patient reported fluid retention"),
                  "completed",
                  <<(<<"Excess interdialytic weight gain", 450, 69>>)>>),
      SeedSession("P003", Hours(10), Some(Hours(14)), Kg(82), Some(Kg(80) + 1),
                  [pre |-> SeedVitals(145, 95), post |-> SeedVitals(145, 90)],
                  "M003", Some("Monitor BP closely"), "completed",
                  <<(<<"High post-dialysis systolic BP", 145, 140>>)>>),
      SeedSession("P004", Hours(11), Some(13 * Minutes(30)), Kg(60),
                  Some(Kg(59)),
                  [pre |-> SeedVitals(125, 75), post |-> SeedVitals(120, 70)],
                  "M004",
                  Some("Session ended early due to patient discomfort"),
                  "completed",
                  <<(<<"Short session duration", 150, 150>>)>>),
      SeedSession("P001", Hours(14), None, Kg(72) + 1, None,
                  [pre |-> SeedVitals(138, 88), post |-> None],
                  "M001", None, "in_progress", <<>>),
      SeedSession("P002", Hours(15), None, Kg(69) + 1, None,
                  [pre |-> SeedVitals(142, 88), post |-> None],
                  "M002", None, "not_started", <<>>)>>

SeedDone == Len(SeedSessions) + 1

(* deleteMany on both collections, then insertMany of the patients and of  *)
(* the sessions as written                                                 *)
SeedInsert ==
    /\ seedPc = 0
    /\ patients' = SeedPatients
    /\ sessions' = SeedSessions
    /\ seedPc' = 1
    /\ evaluated' = None
    /\ UNCHANGED <<response, evalVars, running, arrays, pending, patches, dashboard>>

(* one turn of the loop over the created sessions *)
SeedReevaluate ==
    /\ seedPc \in 1 .. Len(SeedSessions)
    /\ LET session == sessions[seedPc]
           found == FindPatient(session.patientId)
           evaluates == /\ session.status = "completed"
                        /\ TruthyObj(session.endTime)
                        /\ TruthyNum(session.postWeight)
                        /\ found # None
           call == CallRecord(session,
                              [dryWeight |-> Some(found[1].dryWeight)])
       IN  /\ evaluated' = IF evaluates THEN Some(call) ELSE None
           /\ sessions' = IF evaluates /\ ~call.out.threw
                           THEN [sessions EXCEPT ![seedPc].anomalies =
                                                    call.out.anomalies]
                           ELSE sessions
    /\ seedPc' = seedPc + 1
    /\ UNCHANGED <<patients, response, evalVars, running, arrays, pending, patches,
                 dashboard>>

(*----------------------------- the Dashboard -----------------------------*)
(* calls of loadData waiting for their responses at the same time *)
MaxLoads == 2

(* the state of the component at its first render *)
Unmounted ==
    [mounted |-> FALSE, selectedUnit |-> "", anomaliesOnly |-> FALSE,
     sessions |-> <<>>, patients |-> {}, loading |-> TRUE, error |-> None,
     inflight |-> <<>>]

(* the sessions of the response to api.getTodaySchedule(unit || undefined, *)
(* anomaliesOnly): the unit is sent when it is not empty, anomaliesOnly    *)
(* as 'true' when it is set                                                *)
TodaySchedule(unit, anomaliesOnly) ==
    TodayList(SortedIds(Len(sessions)),
              IF unit # "" THEN Some(unit) ELSE None,
              IF anomaliesOnly THEN Some("true") ELSE None)

(* loadData up to its await: the requests are sent with the filters of the *)
(* render that made this loadData                                          *)
StartLoad(state) ==
    [state EXCEPT !.loading = TRUE, !.error = None,
                  !.inflight = Append(@, [unit |-> state.selectedUnit,
                                          anomaliesOnly |-> state.anomaliesOnly])]

Without(seq, k) == SubSeq(seq, 1, k - 1) \o SubSeq(seq, k + 1, Len(seq))

(* the effect of the first render *)
DashboardMount ==
    /\ ~dashboard.mounted
    /\ dashboard' = StartLoad([dashboard EXCEPT !.mounted = TRUE])
    /\ UNCHANGED <<apiVars, evalVars, seedPc, running, arrays, pending,
                   patches>>

(* the user selects another unit or toggles the anomalies-only box: the    *)
(* component renders with the new filter and its effect calls loadData     *)
ChangeFilter(unit, anomaliesOnly) ==
    /\ dashboard.mounted
    /\ Len(dashboard.inflight) < MaxLoads
    /\ (unit # dashboard.selectedUnit) # (anomaliesOnly # dashboard.anomaliesOnly)
    /\ dashboard' = StartLoad([dashboard EXCEPT !.selectedUnit = unit,
                                                !.anomaliesOnly = anomaliesOnly])
    /\ UNCHANGED <<apiVars, evalVars, seedPc, running, arrays, pending,
                   patches>>

(* both responses of the k-th waiting loadData have arrived: the rest of   *)
(* its try block and its finally block                                     *)
LoadResolves(k) ==
    /\ k \in 1 .. Len(dashboard.inflight)
    /\ LET request == dashboard.inflight[k]
       IN  dashboard' = [dashboard EXCEPT
               !.sessions = TodaySchedule(request.unit, request.anomaliesOnly),
               !.patients = patients,
               !.loading = FALSE,
               !.inflight = Without(@, k)]
    /\ UNCHANGED <<apiVars, evalVars, seedPc, running, arrays, pending,
                   patches>>

(* a request of the k-th waiting loadData has failed: its catch block and  *)
(* its finally block                                                       *)
LoadRejects(k) ==
    /\ k \in 1 .. Len(dashboard.inflight)
    /\ dashboard' = [dashboard EXCEPT
           !.error = Some("Failed to load data"),
           !.loading = FALSE,
           !.inflight = Without(@, k)]
    /\ UNCHANGED <<apiVars, evalVars, seedPc, running, arrays, pending,
                   patches>>

(*--------------------------- request bodies ------------------------------*)
PatientBody(patientId, dryWeight, unit) ==
    [patientId |-> patientId, firstName |-> Some("John"),
     dryWeight |-> dryWeight, unit |-> Some(unit)]

(* two registrations, and bodies without dryWeight, with dryWeight 0 and   *)
(* with a negative dryWeight                                               *)
PatientBodies ==
    {PatientBody(Some("P001"), Some(Kg(70)), "Unit-A"),
     PatientBody(Some("P002"), Some(Kg(70)), "Unit-B"),
     PatientBody(Some("P002"), None, "Unit-B"),
     PatientBody(Some("P002"), Some(0), "Unit-B"),
     PatientBody(Some("P002"), Some(0 - Kg(70)), "Unit-B")}

(* registrations of two ids with differing weights and units, and bodies   *)
(* with dryWeight 0 and with a negative dryWeight                          *)
RegistrationBodies ==
    {PatientBody(Some(id), Some(w), unit) :
        id \in {"P001", "P002"}, w \in {Kg(70), Kg(60), 0, 0 - Kg(10)},
        unit \in {"Unit-A", "Unit-B"}}

PostVitals(sys) ==
    Some([pre |-> None, post |-> Some(IVitals(Some(sys)))])

CreateBody(patientId, endTime, preWeight, vitals) ==
    [patientId |-> patientId, scheduledDate |-> Some(Today),
     startTime |-> Some(Hours(8)), endTime |-> endTime,
     preWeight |-> preWeight, postWeight |-> None, vitals |-> vitals,
     machineId |-> Some("M001"), nurseNotes |-> None, status |-> None]

(* the first body of CreateBodies without one of its required fields *)
IncompleteBodies ==
    LET body == CreateBody(Some("P001"), None, Some(Kg(72)), None)
    IN  {[body EXCEPT !.patientId = None],
         [body EXCEPT !.scheduledDate = None],
         [body EXCEPT !.startTime = None],
         [body EXCEPT !.preWeight = None],
         [body EXCEPT !.machineId = None],
         [body EXCEPT !.patientId = Some("P003"), !.machineId = None]}

(* a running session of P001 without anomalies, a finished session of P002 *)
(* with all three anomalies, and bodies answered 400 and 404               *)
CreateBodies ==
    {CreateBody(Some("P001"), None, Some(Kg(72)), None),
     CreateBody(Some("P002"), Some(Hours(10)), Some(Kg(75)), PostVitals(145)),
     CreateBody(Some("P001"), None, Some(0), None),
     CreateBody(Some("P001"), None, Some(0 - Kg(72)), None),
     CreateBody(Some("P003"), None, Some(Kg(72)), None)}
        \cup IncompleteBodies

UpdateBody(nurseNotes, endTime, postWeight, vitals, status) ==
    [nurseNotes |-> nurseNotes, endTime |-> endTime,
     postWeight |-> postWeight, vitals |-> vitals, status |-> status]

(* notes, status and pre-dialysis vitals; the end of the session with its  *)
(* post-dialysis vitals; a negative postWeight                             *)
UpdateBodies ==
    {UpdateBody(Some("note"), None, None,
                Some([pre |-> Some(IVitals(Some(135))), post |-> None]),
                Some("completed")),
     UpdateBody(None, Some(Hours(12)), Some(Kg(70)), PostVitals(130), None),
     UpdateBody(None, None, Some(0 - Kg(70)), None, None)}

(* sessions scheduled at the first and the last millisecond of today, at   *)
(* the last millisecond of yesterday and at midnight tomorrow              *)
ScheduleCreates ==
    {CreateBody(Some("P001"), None, Some(Kg(72)), None),
     CreateBody(Some("P002"), Some(Hours(10)), Some(Kg(75)), PostVitals(145)),
     [CreateBody(Some("P001"), None, Some(Kg(75)), None)
         EXCEPT !.scheduledDate = Some(Tomorrow - 1)],
     [CreateBody(Some("P002"), None, Some(Kg(75)), None)
         EXCEPT !.scheduledDate = Some(Today - 1)],
     [CreateBody(Some("P001"), None, Some(Kg(75)), None)
         EXCEPT !.scheduledDate = Some(Tomorrow)]}

ScheduleUnits == {None, Some("Unit-A"), Some("Unit-B")}

ScheduleFlags == {None, Some("true"), Some("false")}

(* one patient, one finished session with all three anomalies, and updates *)
(* that clear the post-dialysis vitals with null, set them again, record   *)
(* the post-dialysis weight, and set each status                           *)
PatchPatients == {PatientBody(Some("P002"), Some(Kg(70)), "Unit-B")}

PatchCreates ==
    {CreateBody(Some("P002"), Some(Hours(10)), Some(Kg(75)), PostVitals(145))}

PatchBodies ==
    {UpdateBody(None, None, None, Some([pre |-> None, post |-> Null]), None),
     UpdateBody(None, None, None, PostVitals(145), None),
     UpdateBody(None, None, Some(Kg(70)), None, None)}
        \cup {UpdateBody(None, None, None, None, Some(st)) :
                 st \in {"not_started", "in_progress", "completed"}}

(* a finished session with pre- and post-dialysis vitals and all three     *)
(* anomalies                                                               *)
FrameCreates ==
    {CreateBody(Some("P002"), Some(Hours(10)), Some(Kg(75)),
                Some([pre |-> Some(IVitals(Some(135))),
                      post |-> Some(IVitals(Some(145)))]))}

(* a payload with the fields of UpdateSessionRequest and, when `foreign`,  *)
(* also the fields of a session that the request type does not have       *)
FrameBody(updates, foreign) ==
    [nurseNotes |-> updates.nurseNotes, endTime |-> updates.endTime,
     postWeight |-> updates.postWeight, vitals |-> updates.vitals,
     status |-> updates.status,
     patientId |-> IF foreign THEN Some("P001") ELSE None,
     scheduledDate |-> IF foreign THEN Some(Tomorrow) ELSE None,
     startTime |-> IF foreign THEN Some(Hours(9)) ELSE None,
     preWeight |-> IF foreign THEN Some(Kg(80)) ELSE None,
     machineId |-> IF foreign THEN Some("M009") ELSE None]

(* vitals with only pre, vitals with only post, and a payload that also    *)
(* names fields outside the request type                                   *)
FrameBodies ==
    {FrameBody(UpdateBody(None, None, None,
                          Some([pre |-> Some(IVitals(Some(120))),
                                post |-> None]), None), FALSE),
     FrameBody(UpdateBody(None, None, None, PostVitals(130), None), FALSE),
     FrameBody(UpdateBody(Some("note"), Some(Hours(14)), Some(Kg(70)), None,
                          Some("completed")), TRUE)}

(* a running session of P002 without anomalies *)
RaceCreates == {CreateBody(Some("P002"), None, Some(Kg(72)), None)}

(* post-dialysis vitals with a high systolic pressure, and a note with an  *)
(* end one hour after the start                                            *)
RaceBodies ==
    {UpdateBody(None, None, None, PostVitals(145), None),
     UpdateBody(Some("note"), Some(Hours(9)), None, None, None)}

(*--------------------------- specifications ------------------------------*)
(* the evaluator applied to every input of the bounded domain *)
InitEval ==
    /\ argSession \in EvalSessions
    /\ argPatient \in EvalPatients
    /\ ncalls = 0
    /\ result = None
    /\ memo = None
    /\ patients = {}
    /\ sessions = <<>>
    /\ response = NoResponse
    /\ evaluated = None
    /\ seedPc = 0
    /\ running = [i \in 1 .. MaxRunning |-> None]
    /\ arrays = [i \in 1 .. MaxRunning |-> <<>>]
    /\ pending = {}
    /\ patches = [r \in 1 .. MaxPatches |-> None]
    /\ dashboard = Unmounted

NextEval == Evaluate

SpecEval == InitEval /\ [][NextEval]_vars

(* sequences of calls on varying inputs *)
InitCalls ==
    /\ argSession = MkSession(Some(Hours(8)), None, Some(Kg(72)), None, None)
    /\ argPatient = [dryWeight |-> Some(Kg(70))]
    /\ ncalls = 0
    /\ result = None
    /\ memo = None
    /\ patients = {}
    /\ sessions = <<>>
    /\ response = NoResponse
    /\ evaluated = None
    /\ seedPc = 0
    /\ running = [i \in 1 .. MaxRunning |-> None]
    /\ arrays = [i \in 1 .. MaxRunning |-> <<>>]
    /\ pending = {}
    /\ patches = [r \in 1 .. MaxPatches |-> None]
    /\ dashboard = Unmounted

NextCalls == Evaluate \/ SetInput

SpecCalls == InitCalls /\ [][NextCalls]_vars

(* calls on sessions that differ in the fields no check reads *)
NextFields == Evaluate \/ SetOtherFields

SpecFields == InitCalls /\ [][NextFields]_vars

(* the server: requests handled one at a time *)
(* the server: requests handled one at a time *)
Init ==
    /\ argSession = MkSession(Some(Hours(8)), None, Some(Kg(72)), None, None)
    /\ argPatient = [dryWeight |-> Some(Kg(70))]
    /\ ncalls = 0
    /\ result = None
    /\ memo = None
    /\ patients = {}
    /\ sessions = <<>>
    /\ response = NoResponse
    /\ evaluated = None
    /\ seedPc = 0
    /\ running = [i \in 1 .. MaxRunning |-> None]
    /\ arrays = [i \in 1 .. MaxRunning |-> <<>>]
    /\ pending = {}
    /\ patches = [r \in 1 .. MaxPatches |-> None]
    /\ dashboard = Unmounted

Next ==
    \/ \E body \in PatientBodies : RegisterPatient(body)
    \/ \E body \in CreateBodies : CreateSession(body)
    \/ \E id \in 1 .. MaxSessions, updates \in UpdateBodies :
          UpdateSession(id, updates)
    \/ \E unit \in {None, Some("Unit-A")}, anomaliesOnly \in {None, Some("true")} :
          GetToday(unit, anomaliesOnly)

Spec == Init /\ [][Next]_vars

(* the server under updates of one patient's sessions *)
NextPatch ==
    \/ \E body \in PatchPatients : RegisterPatient(body)
    \/ \E body \in PatchCreates : CreateSession(body)
    \/ \E id \in 1 .. MaxSessions, updates \in PatchBodies :
          UpdateSession(id, updates)

SpecPatch == Init /\ [][NextPatch]_vars

(* the server under updates whose payloads carry parts of the vitals and   *)
(* fields the handler does not assign                                      *)
NextFrame ==
    \/ \E body \in PatchPatients : RegisterPatient(body)
    \/ \E body \in FrameCreates : CreateSession(body)
    \/ \E id \in 1 .. MaxSessions, updates \in FrameBodies :
          UpdateSession(id, updates)

SpecFrame == Init /\ [][NextFrame]_vars

(* the server with one session and PATCH handlers that interleave at their *)
(* awaits                                                                  *)
NextRace ==
    \/ \E body \in PatchPatients : RegisterPatient(body)
    \/ \E body \in RaceCreates : sessions = <<>> /\ CreateSession(body)
    \/ \E r \in 1 .. MaxPatches, id \in 1 .. MaxSessions, updates \in RaceBodies :
          PatchFind(r, id, updates)
    \/ \E r \in 1 .. MaxPatches : PatchApply(r)
    \/ \E r \in 1 .. MaxPatches : PatchEvaluate(r)
    \/ \E r \in 1 .. MaxPatches : PatchSave(r)

SpecRace == Init /\ [][NextRace]_vars

(* the Dashboard in front of the seeded server *)
NextDashboard ==
    \/ SeedInsert
    \/ SeedReevaluate
    \/ seedPc = SeedDone /\ DashboardMount
    \/ \E unit \in {"", "Unit-A", "Unit-B"}, anomaliesOnly \in BOOLEAN :
          ChangeFilter(unit, anomaliesOnly)
    \/ \E k \in 1 .. MaxLoads : LoadResolves(k)
    \/ \E k \in 1 .. MaxLoads : LoadRejects(k)

SpecDashboard == Init /\ [][NextDashboard]_vars

(* the seed script, then the server on the seeded collections: today's     *)
(* schedule is read and the sessions that have not ended are updated       *)
NextSeed ==
    \/ SeedInsert
    \/ SeedReevaluate
    \/ /\ seedPc = SeedDone
       /\ \E id \in {i \in 1 .. Len(sessions) : sessions[i].endTime = None},
             updates \in UpdateBodies : UpdateSession(id, updates)
    \/ /\ seedPc = SeedDone
       /\ \E unit \in {None, Some("Unit-A"), Some("Unit-B")},
             anomaliesOnly \in {None, Some("true"), Some("false")} :
             GetToday(unit, anomaliesOnly)

SpecSeed == Init /\ [][NextSeed]_vars

(* registrations served one at a time or waiting for their save together *)
NextPatients ==
    \/ \E body \in RegistrationBodies : RegisterPatient(body)
    \/ \E body \in RegistrationBodies : BeginRegistration(body)
    \/ \E body \in RegistrationBodies : CompleteRegistration(body)

SpecPatients == Init /\ [][NextPatients]_vars

(* the server asked for today's schedule, with sessions of several days *)
NextSchedule ==
    \/ \E body \in {PatientBody(Some("P001"), Some(Kg(70)), "Unit-A"),
                     PatientBody(Some("P002"), Some(Kg(70)), "Unit-B")} :
          RegisterPatient(body)
    \/ \E body \in ScheduleCreates : CreateSession(body)
    \/ \E unit \in ScheduleUnits, anomaliesOnly \in ScheduleFlags :
          GetToday(unit, anomaliesOnly)

SpecSchedule == Init /\ [][NextSchedule]_vars

(* handlers of concurrent requests inside detectAnomalies *)
NextConcurrent ==
    \E i \in 1 .. MaxRunning :
       \/ \E call \in ConcurrentCalls : StartCall(i, call.session, call.patient)
       \/ StepCall(i)
       \/ FinishCall(i)

SpecConcurrent == Init /\ [][NextConcurrent]_vars

(*------------------------------ properties -------------------------------*)
WeightText == "Excess interdialytic weight gain"
BPText == "High post-dialysis systolic BP"
ShortText == "Short session duration"
LongText == "Long session duration"

HasText(out, text) ==
    \E i \in 1 .. Len(out.anomalies) : out.anomalies[i][1] = text

(* the anomalies of `out` whose text is in `texts`, in order *)
Only(out, texts) == SelectSeq(out.anomalies, LAMBDA m : m[1] \in texts)

Called == result # None
In == result[1].session
Pat == result[1].patient
Out == result[1].out

SystolicPresent(session) ==
    /\ session.vitals # None
    /\ session.vitals[1].post # None
    /\ session.vitals[1].post[1].systolicBP # None

SystolicOf(session) == session.vitals[1].post[1].systolicBP[1]

ElapsedMs(session) == session.endTime[1] - session.startTime[1]

(* C1: for every preWeight and every dryWeight > 0 the weight-gain anomaly *)
(* is emitted iff (preWeight - dryWeight) / dryWeight > 0.05; exactly 5%,  *)
(* zero gain and negative gain never emit it                               *)
C1_WeightGainIff ==
    (Called /\ In.preWeight # None /\ Pat.dryWeight # None
            /\ Pat.dryWeight[1] > 0)
        => (HasText(Out, WeightText)
               <=> 100 * (In.preWeight[1] - Pat.dryWeight[1])
                       > 5 * Pat.dryWeight[1])

(* a gain of exactly 5% (73.5 kg on 70 kg) was evaluated and not flagged *)
C1_Witness ==
    /\ Called
    /\ In.preWeight = Some(Kg(70) + 7)
    /\ Pat.dryWeight = Some(Kg(70))
    /\ ~HasText(Out, WeightText)

(* C2: the high-BP anomaly is emitted iff vitals.post.systolicBP is        *)
(* present and > 140; exactly 140 and an absent vitals.post never emit it  *)
C2_SystolicIff ==
    Called
        => (HasText(Out, BPText)
               <=> (SystolicPresent(In) /\ SystolicOf(In) > 140))

(* a post systolic BP of exactly 140 was evaluated and not flagged *)
C2_Witness ==
    /\ Called
    /\ SystolicPresent(In)
    /\ SystolicOf(In) = 140
    /\ ~HasText(Out, BPText)

(* C3: with startTime < endTime the result has a short-duration anomaly    *)
(* iff the elapsed minutes are < 150, a long-duration anomaly iff they are *)
(* > 300, none iff they lie in [150, 300]; never both a short and a long   *)
C3_DurationIff ==
    Called
        => /\ ~(HasText(Out, ShortText) /\ HasText(Out, LongText))
           /\ (In.startTime # None /\ In.endTime # None
                  /\ In.startTime[1] < In.endTime[1])
                 => /\ HasText(Out, ShortText) <=> ElapsedMs(In) < 150 * 60000
                    /\ HasText(Out, LongText) <=> ElapsedMs(In) > 300 * 60000
                    /\ (~HasText(Out, ShortText) /\ ~HasText(Out, LongText))
                          <=> (ElapsedMs(In) >= 150 * 60000
                                  /\ ElapsedMs(In) <= 300 * 60000)

(* a session of exactly 150 minutes was evaluated: no duration anomaly *)
C3_Witness ==
    /\ Called
    /\ In.startTime # None /\ In.endTime # None
    /\ ElapsedMs(In) = 150 * 60000
    /\ ~HasText(Out, ShortText)
    /\ ~HasText(Out, LongText)

Rank(text) ==
    IF text = WeightText THEN 1 ELSE IF text = BPText THEN 2 ELSE 3

AllThreeTriggers(session, patient) ==
    /\ session.preWeight # None /\ patient.dryWeight # None
    /\ patient.dryWeight[1] > 0
    /\ 100 * (session.preWeight[1] - patient.dryWeight[1])
           > 5 * patient.dryWeight[1]
    /\ SystolicPresent(session) /\ SystolicOf(session) > 140
    /\ session.startTime # None /\ session.endTime # None
    /\ \/ ElapsedMs(session) < 150 * 60000
       \/ ElapsedMs(session) > 300 * 60000

(* C4: the anomalies are ordered weight gain, BP, duration, each at most   *)
(* once; with all three triggers active there are exactly 3, in that order *)
C4_FixedOrder ==
    Called
        => /\ \A i, j \in 1 .. Len(Out.anomalies) :
                 i < j => Rank(Out.anomalies[i][1]) < Rank(Out.anomalies[j][1])
           /\ AllThreeTriggers(In, Pat)
                 => /\ Len(Out.anomalies) = 3
                    /\ Out.anomalies[1][1] = WeightText
                    /\ Out.anomalies[2][1] = BPText
                    /\ Out.anomalies[3][1] \in {ShortText, LongText}

(* all three checks fired in one call *)
C4_Witness ==
    /\ Called
    /\ AllThreeTriggers(In, Pat)
    /\ Len(Out.anomalies) = 3

(* C5: in every result of detectAnomalies and in every session object of  *)
(* a create, update or today's-schedule response, hasAnomalies is true iff *)
(* the anomalies list of the same object is non-empty                      *)
C5_HasAnomaliesIff ==
    /\ Called => (Out.hasAnomalies <=> Len(Out.anomalies) > 0)
    /\ evaluated # None
          => (evaluated[1].out.hasAnomalies
                 <=> Len(evaluated[1].out.anomalies) > 0)
    /\ \A i \in 1 .. Len(response.sessions) :
          response.sessions[i].hasAnomalies
              <=> Len(response.sessions[i].session.anomalies) > 0

(* a session was created with anomalies and its response says so *)
C5_Witness ==
    /\ response.op = "POST /api/sessions"
    /\ response.status = 201
    /\ evaluated # None
    /\ response.sessions[1].hasAnomalies
    /\ Len(response.sessions[1].session.anomalies) = 3

Remembered == memo # None

C7_InputsUnchanged ==
    [][ncalls' # ncalls
          => /\ argSession' = argSession
             /\ argPatient' = argPatient
             /\ patients' = patients
             /\ sessions' = sessions]_vars

(* a call returned anomalies and the session it was given still has the    *)
(* empty stored list it had before                                         *)
C7_Witness ==
    /\ Called
    /\ Len(Out.anomalies) > 0
    /\ argSession = In
    /\ argSession.anomalies = <<>>

OtherThan(session, fields) ==
    [f \in (DOMAIN session) \ fields |-> session[f]]

(* C8: two inputs that differ only in the fields feeding one check get the *)
(* same anomalies, with the same text, from the other two checks           *)
C8_Independent ==
    (Called /\ Remembered)
        => /\ (OtherThan(memo[1].session, {"preWeight"})
                   = OtherThan(In, {"preWeight"}))
                 => Only(memo[1].out, {BPText, ShortText, LongText})
                        = Only(Out, {BPText, ShortText, LongText})
           /\ (OtherThan(memo[1].session, {"vitals"})
                   = OtherThan(In, {"vitals"}) /\ memo[1].patient = Pat)
                 => Only(memo[1].out, {WeightText, ShortText, LongText})
                        = Only(Out, {WeightText, ShortText, LongText})
           /\ (OtherThan(memo[1].session, {"startTime", "endTime"})
                   = OtherThan(In, {"startTime", "endTime"})
                   /\ memo[1].patient = Pat)
                 => Only(memo[1].out, {WeightText, BPText})
                        = Only(Out, {WeightText, BPText})

(* two calls that differ only in preWeight: one is flagged for weight gain *)
(* and the other is not, and both carry the same BP anomaly                *)
C8_Witness ==
    /\ Called /\ Remembered
    /\ memo[1].patient = Pat
    /\ OtherThan(memo[1].session, {"preWeight"}) = OtherThan(In, {"preWeight"})
    /\ HasText(memo[1].out, WeightText)
    /\ ~HasText(Out, WeightText)
    /\ HasText(Out, BPText)

(* C9: for every combination of present and absent postWeight, endTime,    *)
(* vitals, vitals.post and systolicBP, and any weights, the call returns a *)
(* result and does not throw; an absent field only skips its own check     *)
C9_Total ==
    Called
        => /\ ~Out.threw
           /\ Out.hasAnomalies \in BOOLEAN
           /\ ~SystolicPresent(In) => ~HasText(Out, BPText)
           /\ In.endTime = None
                 => (~HasText(Out, ShortText) /\ ~HasText(Out, LongText))

(* a session without postWeight, endTime and vitals was evaluated and the  *)
(* weight check still ran                                                  *)
C9_Witness ==
    /\ Called
    /\ In.postWeight = None /\ In.endTime = None /\ In.vitals = None
    /\ ~Out.threw
    /\ HasText(Out, WeightText)

WeightSkipped(session, patient) ==
    \/ session.preWeight = None \/ session.preWeight = Some(0)
    \/ patient.dryWeight = None \/ patient.dryWeight = Some(0)

(* C10: with dryWeight or preWeight zero or missing no weight-gain anomaly *)
(* is emitted, nothing fails, and the BP and duration checks are evaluated *)
(* as usual                                                                *)
C10_ZeroWeightSkips ==
    (Called /\ WeightSkipped(In, Pat))
        => /\ ~Out.threw
           /\ ~HasText(Out, WeightText)
           /\ HasText(Out, BPText)
                 <=> (SystolicPresent(In) /\ SystolicOf(In) > 140)
           /\ (In.startTime # None /\ In.endTime # None)
                 => /\ HasText(Out, ShortText) <=> ElapsedMs(In) < 150 * 60000
                    /\ HasText(Out, LongText) <=> ElapsedMs(In) > 300 * 60000

(* a session with preWeight 75 kg and dryWeight 0 was evaluated: the BP    *)
(* and duration anomalies are reported, the weight gain is not             *)
C10_Witness ==
    /\ Called
    /\ Pat.dryWeight = Some(0)
    /\ In.preWeight = Some(Kg(70) + 10)
    /\ Len(Out.anomalies) = 2
    /\ HasText(Out, BPText)
    /\ HasText(Out, LongText)

(*---------------------------- the callers --------------------------------*)
Created == response.op = "POST /api/sessions" /\ response.status = 201

(* C11: every successful create evaluates the candidate session with the   *)
(* dryWeight of the patient it looked up, stores the list the evaluator    *)
(* returned, and answers 201 with that same list                           *)
C11_CreateEvaluatesAndStores ==
    Created =>
        LET body == response.sessions[1]
            stored == sessions[body.id]
            candidate == [stored EXCEPT !.anomalies = <<>>]
            found == FindPatient(stored.patientId)
        IN  /\ body.id = Len(sessions)
            /\ found # None
            /\ evaluated # None
            /\ evaluated[1].session = candidate
            /\ evaluated[1].patient = [dryWeight |-> Some(found[1].dryWeight)]
            /\ stored.anomalies =
                   detectAnomalies(candidate,
                                   [dryWeight |-> Some(found[1].dryWeight)]).anomalies
            /\ stored.anomalies = evaluated[1].out.anomalies
            /\ body.session.anomalies = stored.anomalies

C11_Witness ==
    /\ Created
    /\ Len(sessions[response.sessions[1].id].anomalies) = 3
    /\ evaluated # None /\ Len(evaluated[1].out.anomalies) = 3

(* the payload carries postWeight, vitals.post or endTime *)
Touches(updates) ==
    \/ updates.postWeight # None
    \/ updates.endTime # None
    \/ (updates.vitals # None /\ updates.vitals[1].post # None)

Updated == response.op = "PATCH /api/sessions/:id" /\ response.status = 200

(* C12: an update that carries postWeight, vitals.post or endTime calls    *)
(* the evaluator on the merged session with the patient's dryWeight and    *)
(* stores exactly the list it returned in place of the old one             *)
C12_UpdateReevaluates ==
    [][\A id \in 1 .. MaxSessions, updates \in PatchBodies :
          (/\ UpdateSession(id, updates)
           /\ response'.status = 200
           /\ Touches(updates))
          => LET merged == ApplyUpdates(sessions[id], updates)
                 found == FindPatient(merged.patientId)
                 out == detectAnomalies(merged,
                                        [dryWeight |-> Some(found[1].dryWeight)])
             IN  /\ evaluated' # None
                 /\ evaluated'[1].session = merged
                 /\ sessions'[id].anomalies = out.anomalies]_vars

(* a stored list that the evaluator would not return for its session: the  *)
(* post-dialysis vitals are gone and the BP anomaly is still stored        *)
C12_StaleList ==
    /\ Updated
    /\ evaluated = None
    /\ \E id \in 1 .. Len(sessions) :
          /\ sessions[id].vitals[1].post = None
          /\ \E k \in 1 .. Len(sessions[id].anomalies) :
                sessions[id].anomalies[k][1] = BPText

(* C13: an update whose payload carries none of postWeight, vitals.post    *)
(* and endTime does not call the evaluator and leaves the stored list of   *)
(* the session as it was                                                   *)
C13_OtherUpdatesKeepList ==
    [][\A id \in 1 .. MaxSessions, updates \in UpdateBodies :
          (UpdateSession(id, updates) /\ ~Touches(updates))
          => /\ evaluated' = None
             /\ Len(sessions') = Len(sessions)
             /\ id <= Len(sessions)
                   => sessions'[id].anomalies = sessions[id].anomalies]_vars

C13_Witness ==
    /\ Updated
    /\ evaluated = None
    /\ LET doc == sessions[response.sessions[1].id]
       IN  /\ doc.nurseNotes = Some("note")
           /\ doc.status = "completed"
           /\ doc.vitals[1].pre # None
           /\ Len(doc.anomalies) = 3

Seeded == seedPc = SeedDone /\ response = NoResponse

(* C14: when the seed script has finished, the stored list of every seeded *)
(* session is the evaluator's output on that session and the dryWeight of  *)
(* its patient, whatever its status and whether or not it has ended        *)
C14_SeedListsEvaluated ==
    Seeded =>
        \A id \in 1 .. Len(sessions) :
            LET found == FindPatient(sessions[id].patientId)
            IN  /\ found # None
                /\ sessions[id].anomalies =
                       detectAnomalies(sessions[id],
                                       [dryWeight |-> Some(found[1].dryWeight)]).anomalies

(* C15: in every interleaving of calls on different sessions, a finished   *)
(* call holds exactly what detectAnomalies returns for its own arguments   *)
C15_CallsIndependent ==
    \A i \in 1 .. MaxRunning :
        (running[i] # None /\ running[i][1].pc = "done")
        => Returned(i) = detectAnomalies(running[i][1].session,
                                         running[i][1].patient)

C15_Witness ==
    \E i, j \in 1 .. MaxRunning :
        /\ i # j
        /\ running[i] # None /\ running[j] # None
        /\ running[i][1].pc = "done" /\ Len(Returned(i).anomalies) = 3
        /\ running[j][1].pc = "duration" /\ Len(arrays[ArrayOf(j)]) = 1
        /\ running[i][1].session # running[j][1].session

(* position of a status in the lifecycle not_started, in_progress, completed *)
StatusRank(status) ==
    CASE status = "not_started" -> 0
      [] status = "in_progress" -> 1
      [] OTHER -> 2

(* C16: over any sequence of create and update requests the stored status  *)
(* of a session only moves forward along not_started, in_progress,         *)
(* completed and never goes back                                           *)
C16_StatusOnlyForward ==
    [][\A id \in 1 .. Len(sessions) :
          StatusRank(sessions'[id].status) >= StatusRank(sessions[id].status)]_vars

(* the body has no value for one of the five required fields *)
Lacks(body) ==
    \/ body.patientId = None \/ body.scheduledDate = None
    \/ body.startTime = None \/ body.preWeight = None
    \/ body.machineId = None

(* the body gives all five required fields, the weight being a weight *)
Complete(body) == ~Lacks(body) /\ body.preWeight[1] # 0

(* C17: a create request without patientId, scheduledDate, startTime,      *)
(* preWeight or machineId is answered 400, a complete one with an unknown  *)
(* patientId is answered 404, and a request answered 400 or 404 stores no  *)
(* session and changes none                                                *)
C17_RejectedCreateStoresNothing ==
    [][\A body \in CreateBodies :
          CreateSession(body)
          => /\ Lacks(body) => response'.status = 400
             /\ (/\ Complete(body)
                 /\ ~\E p \in patients : p.patientId = body.patientId[1])
                   => response'.status = 404
             /\ response'.status \in {400, 404} => sessions' = sessions]_vars

C17_Witness ==
    /\ response.op = "POST /api/sessions"
    /\ response.status = 404
    /\ response.error = "Patient not found"
    /\ Len(sessions) > 0
    /\ \A id \in 1 .. Len(sessions) : sessions[id].patientId # "P003"

Registration == response.op = "POST /api/patients"

(* C18: a registration with every required field and a dryWeight that is  *)
(* not greater than 0 is answered 400 with 'Dry weight must be greater     *)
(* than 0' and stores no patient, and every stored patient has a           *)
(* dryWeight greater than 0                                                *)
C18_DryWeightRejected ==
    /\ [](\A p \in patients : p.dryWeight > 0)
    /\ [][\A body \in RegistrationBodies :
             (/\ RegisterPatient(body)
              /\ body.patientId # None /\ body.firstName # None
              /\ body.unit # None /\ body.dryWeight # None
              /\ body.dryWeight[1] <= 0)
             => /\ response'.status = 400
                /\ response'.error = "Dry weight must be greater than 0"
                /\ patients' = patients]_vars

(* C19: no two stored patients share a patientId, and a registration that  *)
(* passes the checks and reuses a stored patientId is answered 409         *)
(* 'Patient ID already exists' and leaves the stored patients as they were *)
C19_PatientIdsUnique ==
    /\ [](\A p, q \in patients : p.patientId = q.patientId => p = q)
    /\ [][\A body \in RegistrationBodies :
             (/\ RegisterPatient(body) \/ CompleteRegistration(body)
              /\ PassesChecks(body)
              /\ \E p \in patients : p.patientId = body.patientId[1])
             => /\ response'.status = 409
                /\ response'.error = "Patient ID already exists"
                /\ patients' = patients]_vars

(* a registration was answered 409 while another one of the same id, with  *)
(* another unit, still waits for its save: the stored patient is the first *)
C19_Witness ==
    /\ Registration
    /\ response.status = 409
    /\ \E body \in pending, p \in patients :
          /\ p.patientId = body.patientId[1]
          /\ p.unit # body.unit[1]

(* the ids of the sessions of today whose patient is stored, of the given  *)
(* unit when there is one, with anomalies when anomaliesOnly is 'true'     *)
ExpectedToday(unit, anomaliesOnly) ==
    {id \in 1 .. Len(sessions) :
        /\ sessions[id].scheduledDate >= Today
        /\ sessions[id].scheduledDate < Tomorrow
        /\ \E p \in patients :
              /\ p.patientId = sessions[id].patientId
              /\ unit # None => p.unit = unit[1]
        /\ anomaliesOnly = Some("true") => sessions[id].anomalies # <<>>}

(* C20: GET /api/sessions/today returns exactly the sessions scheduled     *)
(* today whose patient exists, of the given unit when one is given and     *)
(* with a non-empty stored list when anomaliesOnly is 'true', each once,   *)
(* and count is the number of sessions returned                            *)
C20_TodayExactly ==
    [][\A unit \in ScheduleUnits, anomaliesOnly \in ScheduleFlags :
          GetToday(unit, anomaliesOnly)
          => LET list == response'.sessions
             IN  /\ response'.status = 200
                 /\ {list[k].id : k \in 1 .. Len(list)} =
                       ExpectedToday(unit, anomaliesOnly)
                 /\ Len(list) = Cardinality(ExpectedToday(unit, anomaliesOnly))
                 /\ \A k \in 1 .. Len(list) :
                       list[k].session = sessions[list[k].id]
                 /\ response'.count = Len(list)]_vars

(* a schedule of one session, of Unit-B and with anomalies, while a        *)
(* session scheduled at midnight tomorrow is stored too                    *)
C20_Witness ==
    /\ response.op = "GET /api/sessions/today"
    /\ response.count = 1
    /\ response.sessions[1].patient[1].unit = "Unit-B"
    /\ response.sessions[1].hasAnomalies
    /\ response.sessions[1].session.scheduledDate = Today
    /\ \E id \in 1 .. Len(sessions) : sessions[id].scheduledDate = Tomorrow

(*------------------------- numbers in the messages -----------------------*)
(* the message of `out` with the given text and the two given numbers *)
HasMessage(out, text, shown, limit) ==
    \E i \in 1 .. Len(out.anomalies) : out.anomalies[i] = <<text, shown, limit>>

(* C21: the comparison uses the unrounded elapsed time and only the number *)
(* shown is rounded half up: from 149.5 to below 150 minutes the session   *)
(* is short with '150 minutes', above 300 and below 300.5 minutes it is    *)
(* long with '300 minutes'                                                 *)
C21_RoundingForDisplayOnly ==
    (Called /\ In.startTime # None /\ In.endTime # None)
        => /\ (ElapsedMs(In) >= 150 * 60000 - 30000 /\ ElapsedMs(In) < 150 * 60000)
                 => HasMessage(Out, ShortText, 150, 150)
           /\ (ElapsedMs(In) > 300 * 60000 /\ ElapsedMs(In) < 300 * 60000 + 30000)
                 => HasMessage(Out, LongText, 300, 300)
           /\ ElapsedMs(In) = 150 * 60000 - 30001
                 => HasMessage(Out, ShortText, 149, 150)
           /\ ElapsedMs(In) = 300 * 60000 + 30000
                 => HasMessage(Out, LongText, 301, 300)

(* a session of exactly 149.5 minutes was flagged short with '150 minutes' *)
C21_Witness ==
    /\ Called
    /\ In.startTime # None /\ In.endTime # None
    /\ ElapsedMs(In) = 150 * 60000 - 30000
    /\ HasMessage(Out, ShortText, 150, 150)

(* C22: the weight-gain message carries the gain with 2 decimals and the   *)
(* percentage of dry weight with 1 decimal; 75.0 kg on a dry weight of     *)
(* 70.0 kg gives '5.00 kg (7.1% of dry weight)' and 72.0 kg on 70.0 kg     *)
(* gives no weight-gain anomaly                                            *)
C22_WeightMessageNumbers ==
    (Called /\ In.preWeight # None /\ Pat.dryWeight # None
            /\ Pat.dryWeight[1] > 0)
        => LET gain == In.preWeight[1] - Pat.dryWeight[1]
               dry == Pat.dryWeight[1]
           IN  /\ \A i \in 1 .. Len(Out.anomalies) :
                     Out.anomalies[i][1] = WeightText
                     => /\ 2 * Out.anomalies[i][2] = 100 * gain
                        /\ (2 * Out.anomalies[i][3] - 1) * dry <= 2000 * gain
                        /\ 2000 * gain < (2 * Out.anomalies[i][3] + 1) * dry
               /\ (In.preWeight[1] = Kg(75) /\ dry = Kg(70))
                     => /\ HasMessage(Out, WeightText, 500, 71)
                        /\ Len(Only(Out, {WeightText})) = 1
               /\ (In.preWeight[1] = Kg(72) /\ dry = Kg(70))
                     => ~HasText(Out, WeightText)

(* 75.0 kg on a dry weight of 70.0 kg was evaluated *)
C22_Witness ==
    /\ Called
    /\ In.preWeight = Some(Kg(75))
    /\ Pat.dryWeight = Some(Kg(70))
    /\ Out.anomalies[1] = <<WeightText, 500, 71>>

(*------------------------- what the result depends on --------------------*)
(* the five values the checks read *)
Relevant(session, patient) ==
    <<session.preWeight, patient.dryWeight,
      IF SystolicPresent(session) THEN Some(SystolicOf(session)) ELSE None,
      session.startTime, session.endTime>>

(* C23: two calls whose sessions agree on preWeight, dryWeight,            *)
(* vitals.post.systolicBP, startTime and endTime return identical results, *)
(* whatever the diastolic BP, the pre-dialysis vitals, the heart rate,     *)
(* postWeight, status, machineId and nurseNotes are                        *)
C23_DependsOnFiveFields ==
    (/\ Called /\ Remembered
     /\ Relevant(In, Pat) = Relevant(memo[1].session, memo[1].patient))
        => Out = memo[1].out

(* two calls that agree on the five values and differ in every other       *)
(* field, both with the three anomalies                                    *)
C23_Witness ==
    /\ Called /\ Remembered
    /\ Relevant(In, Pat) = Relevant(memo[1].session, memo[1].patient)
    /\ In.postWeight # memo[1].session.postWeight
    /\ In.status # memo[1].session.status
    /\ In.machineId # memo[1].session.machineId
    /\ In.nurseNotes # memo[1].session.nurseNotes
    /\ In.vitals # None /\ memo[1].session.vitals # None
    /\ In.vitals[1].pre # memo[1].session.vitals[1].pre
    /\ In.vitals[1].post # memo[1].session.vitals[1].post
    /\ Len(Out.anomalies) = 3

(* C24: when the seed script has finished, the session it creates for      *)
(* P004 lasts 150 minutes from its start at eleven and is stored with the  *)
(* single message 'Short session duration: 150 minutes (minimum: 150       *)
(* minutes)'                                                               *)
C24_SeedShortSession ==
    Seeded =>
        \A id \in 1 .. Len(sessions) :
            sessions[id].patientId = "P004" =>
                /\ sessions[id].startTime = Some(Hours(11))
                /\ ElapsedMs(sessions[id]) = Minutes(150)
                /\ sessions[id].anomalies =
                       <<(<<ShortText, 150, MIN_SESSION_DURATION>>)>>

(* C25: after any sequence of create and update requests handled one at a  *)
(* time, the stored list of every session is the evaluator's output on the *)
(* stored fields of that session and the dryWeight of its patient, for     *)
(* every payload the update handler accepts                                *)
C25_StoredListsCurrent ==
    (seedPc = 0 /\ pending = {})
        => \A id \in 1 .. Len(sessions) :
              LET found == FindPatient(sessions[id].patientId)
              IN  found # None
                     => sessions[id].anomalies =
                            detectAnomalies(sessions[id],
                                            [dryWeight |-> Some(found[1].dryWeight)]).anomalies

(* C27: when endTime is equal to or earlier than startTime the evaluator   *)
(* does not fail; it emits one 'Short session duration' anomaly whose      *)
(* displayed minutes are zero or negative, and no 'Long session duration'  *)
C27_EndNotAfterStart ==
    (/\ Called
     /\ In.startTime # None /\ In.endTime # None
     /\ In.endTime[1] <= In.startTime[1])
        => /\ ~Out.threw
           /\ ~HasText(Out, LongText)
           /\ Len(Only(Out, {ShortText})) = 1
           /\ Only(Out, {ShortText})[1][2] <= 0
           /\ Only(Out, {ShortText})[1][2] =
                  RoundHalfUp(ElapsedMs(In), Minutes(1))

(* a session that ends thirty minutes before its start was evaluated *)
C27_Witness ==
    /\ Called
    /\ In.startTime # None /\ In.endTime # None
    /\ ElapsedMs(In) = 0 - Minutes(30)
    /\ HasMessage(Out, ShortText, -30, MIN_SESSION_DURATION)

(* the fields of a stored session that no update assigns *)
Frame(session) ==
    <<session.patientId, session.scheduledDate, session.startTime,
      session.preWeight, session.machineId>>

(* C29: an update changes at most nurseNotes, endTime, postWeight, vitals, *)
(* status and anomalies of the session it names: whatever the payload      *)
(* holds, patientId, scheduledDate, startTime, preWeight and machineId of  *)
(* every stored session stay as they were, and an update of an unknown     *)
(* session id is answered 404 and changes no stored session                *)
C29_UpdateFrame ==
    [][\A id \in 1 .. MaxSessions, updates \in FrameBodies :
          UpdateSession(id, updates)
          => /\ Len(sessions') = Len(sessions)
             /\ patients' = patients
             /\ \A j \in 1 .. Len(sessions) :
                   /\ Frame(sessions'[j]) = Frame(sessions[j])
                   /\ j # id => sessions'[j] = sessions[j]
             /\ id > Len(sessions)
                   => /\ response'.status = 404
                      /\ sessions' = sessions]_vars

(* a payload naming another patient, start, preWeight and machine was      *)
(* applied: notes and status are stored, the other fields are the created  *)
(* ones                                                                    *)
C29_Witness ==
    /\ Updated
    /\ LET doc == sessions[response.sessions[1].id]
       IN  /\ doc.nurseNotes = Some("note")
           /\ doc.status = "completed"
           /\ Frame(doc) = <<"P002", Today, Some(Hours(8)), Some(Kg(75)), "M001">>

(* C30: the vitals of an update are merged into the stored ones: a payload *)
(* whose vitals hold only post leaves the stored vitals.pre as it was, and *)
(* one whose vitals hold only pre leaves the stored vitals.post and the    *)
(* stored BP anomaly as they were                                          *)
C30_VitalsMerged ==
    [][\A id \in 1 .. MaxSessions, updates \in FrameBodies :
          (/\ UpdateSession(id, updates)
           /\ id <= Len(sessions)
           /\ updates.vitals # None)
          => /\ updates.vitals[1].pre = None
                   => sessions'[id].vitals[1].pre = sessions[id].vitals[1].pre
             /\ updates.vitals[1].post = None
                   => /\ sessions'[id].vitals[1].post =
                             sessions[id].vitals[1].post
                      /\ Only(sessions'[id], {BPText}) =
                             Only(sessions[id], {BPText})]_vars

(* the session created with pre 135 and post 145 after one update with     *)
(* only pre 120 and one with only post 130, in either order                *)
C30_Witness ==
    /\ Updated
    /\ LET doc == sessions[response.sessions[1].id]
       IN  /\ doc.vitals[1].pre = Some(IVitals(Some(120)))
           /\ doc.vitals[1].post = Some(IVitals(Some(130)))

====
